---- MODULE Spec2Model ----
(***************************************************************************)
(* Model of the retrieval pipeline of qa-agent: text normalisation and     *)
(* chunking (backend/utils.py), markup extraction and chunk construction   *)
(* (backend/ingestion.py), the vector store (backend/vector_store.py) and  *)
(* the pipeline that drives them (backend/rag.py), with the test-case      *)
(* endpoint (backend/main.py) and the retried generation call of the       *)
(* agents (backend/test_case_agent.py, backend/script_agent.py).           *)
(*                                                                         *)
(* Text is a sequence of one-character strings.  Python's 0-based,         *)
(* half-open indices are kept: position p of a text t is t[p + 1].         *)
(***************************************************************************)
EXTENDS Integers, Sequences, FiniteSets, TLC

\* ------------------------------------------------------------------ bounds
\* Longest text given to chunk_text on its own.
MaxLen == 8
\* Largest chunk_size (and overlap) given to chunk_text on its own.
MaxSize == 7
\* Most characters of a generated text that are not the letter "a".
MaxMarks == 2
\* Most chunks kept of a run of chunk_text (a run that never ends stops
\* growing its list here and keeps looping).
MaxChunks == 10
\* Most element nodes of a generated markup tree.
MaxNodes == 3
\* Most paths given to one build.
MaxFiles == 2
\* Most results asked of one search.
MaxTopK == 2
\* Most builds of one run.
MaxBuilds == 2
\* Longest generated text given to validate_grounding.
MaxGenLen == 3
\* Most attempts a call of the generation may be given.
MaxRetries == 3

\* ------------------------------------------------------- character helpers
Letter == "a"
Space == " "
Dot == "."
Newline == "\n"

\* The characters str.strip() and the pattern \s treat as whitespace.
Whitespace == {Space, Newline}

Max(S) == CHOOSE x \in S : \A y \in S : y <= x
Min(S) == CHOOSE x \in S : \A y \in S : x <= y

\* Python's clamping of a slice index i for a sequence of length n.
SliceIndex(i, n) ==
    IF i < 0 THEN (IF i + n < 0 THEN 0 ELSE i + n)
    ELSE (IF i > n THEN n ELSE i)

\* text[start:end]
Slice(s, from, to) ==
    LET a == SliceIndex(from, Len(s))
        b == SliceIndex(to, Len(s))
    IN IF a >= b THEN <<>> ELSE SubSeq(s, a + 1, b)

\* text.rfind(sub, start, end): the highest 0-based index at which sub lies
\* wholly inside text[start:end], or -1.
RFind(s, sub, from, to) ==
    LET a == SliceIndex(from, Len(s))
        b == SliceIndex(to, Len(s))
        m == Len(sub)
        hits == {p \in a..(b - m) : SubSeq(s, p + 1, p + m) = sub}
    IN IF hits = {} THEN -1 ELSE Max(hits)

\* str.strip()
Strip(s) ==
    LET Blank(a, b) == \A j \in a..b : s[j] \in Whitespace
        first == CHOOSE i \in 1..Len(s) : s[i] \notin Whitespace /\ Blank(1, i - 1)
        last == CHOOSE i \in 1..Len(s) : s[i] \notin Whitespace /\ Blank(i + 1, Len(s))
    IN IF Blank(1, Len(s)) THEN <<>> ELSE SubSeq(s, first, last)

\* utils.clean_text: every run of whitespace becomes one space, then strip.
clean_text(s) ==
    LET idx == [i \in 1..Len(s) |-> i]
        Kept(i) == s[i] \notin Whitespace \/ i = 1 \/ s[i - 1] \notin Whitespace
        kept == SelectSeq(idx, Kept)
        collapsed == [k \in 1..Len(kept) |->
                        IF s[kept[k]] \in Whitespace THEN Space ELSE s[kept[k]]]
    IN Strip(collapsed)

\* ------------------------------------------------------------- chunk_text
\* One pass of the loop body of chunk_text up to the cut: the end of the
\* window that starts at start.
CutEnd(s, from, size) ==
    LET end0 == from + size
        sentence_end == RFind(s, <<Dot, Space>>, from, end0)
        word_end == RFind(s, <<Space>>, from, end0)
    IN IF end0 < Len(s)
       THEN IF sentence_end > from + (size \div 2)
            THEN sentence_end + 1
            ELSE IF word_end > from + (size \div 2) THEN word_end ELSE end0
       ELSE end0

\* chunks.append(text[start:end].strip())
ChunkAt(s, from, to) == Strip(Slice(s, from, to))

\* start = end - overlap
NextStart(to, ov) == to - ov

\* The early return of chunk_text for a text that fits one chunk.
ShortResultStripped(s) == <<Strip(s)>>

ShortResult(s) == <<s>>

FitsOneChunk(s, size) == Len(s) <= size

\* ------------------------------------------------------ markup (HTML tree)
\* A parsed document is the sequence of its element nodes in document order.
\* A node names its parent by index (0 is the document itself) and carries
\* the attributes the extractor reads; an attribute that is absent and one
\* that is set to the empty string are both "".  txt is the text directly
\* inside the element, written before its child elements.
Node(tag, parent, id, name, cls, type, placeholder, value, txt) ==
    [tag |-> tag, parent |-> parent, id |-> id, name |-> name, cls |-> cls,
     type |-> type, placeholder |-> placeholder, value |-> value, txt |-> txt]

Indices(seq) == [i \in 1..Len(seq) |-> i]

\* The indices of the element children of node p, in document order.
Children(nodes, p) ==
    LET IsChild(j) == nodes[j].parent = p
    IN SelectSeq(Indices(nodes), IsChild)

Attrs(n) == <<n.id, n.name, n.cls, n.type, n.placeholder, n.value>>

\* Equality of two tags as the tree library defines it (Tag.__eq__): the
\* same name, the same attributes and pairwise equal contents.  It is what
\* list.index compares with.
RECURSIVE TagEq(_, _, _)
TagEq(nodes, i, j) ==
    \/ i = j
    \/ /\ nodes[i].tag = nodes[j].tag
       /\ Attrs(nodes[i]) = Attrs(nodes[j])
       /\ nodes[i].txt = nodes[j].txt
       /\ LET ki == Children(nodes, i)
              kj == Children(nodes, j)
          IN /\ Len(ki) = Len(kj)
             /\ \A k \in 1..Len(ki) : TagEq(nodes, ki[k], kj[k])

\* siblings = [s for s in current.parent.children if s.name == current.name]
Siblings(nodes, i) ==
    LET SameTag(j) == nodes[j].tag = nodes[i].tag
    IN SelectSeq(Children(nodes, nodes[i].parent), SameTag)

\* siblings.index(current) + 1: the first sibling equal to current.
IndexOf(nodes, sibs, i) ==
    Min({k \in 1..Len(sibs) : TagEq(nodes, sibs[k], i)})

\* One step of the path: tag[index] when the tag has same-tag siblings.
PathPart(nodes, i) ==
    LET sibs == Siblings(nodes, i)
    IN IF Len(sibs) > 1
       THEN nodes[i].tag \o "[" \o ToString(IndexOf(nodes, sibs, i)) \o "]"
       ELSE nodes[i].tag

\* The while loop of _build_xpath: the parts from the root down to node i.
RECURSIVE PathParts(_, _)
PathParts(nodes, i) ==
    IF i = 0 THEN <<>>
    ELSE Append(PathParts(nodes, nodes[i].parent), PathPart(nodes, i))

\* sep.join(parts)
RECURSIVE Join(_, _)
Join(parts, sep) ==
    IF Len(parts) = 0 THEN ""
    ELSE IF Len(parts) = 1 THEN parts[1]
    ELSE parts[1] \o sep \o Join(Tail(parts), sep)

\* HTMLParser._build_xpath
build_xpath(nodes, i) ==
    IF nodes[i].id # ""
    THEN "//*[@id='" \o nodes[i].id \o "']"
    ELSE IF nodes[i].name # ""
    THEN "//" \o nodes[i].tag \o "[@name='" \o nodes[i].name \o "']"
    ELSE "//" \o Join(PathParts(nodes, i), "/")

\* _build_css_selector, were the name tried before the id and the class
\* list before the type.
build_css_selector_swapped(element_type, elem_id, elem_name, elem_class, elem_type) ==
    IF elem_name # "" THEN element_type \o "[name='" \o elem_name \o "']"
    ELSE IF elem_id # "" THEN "#" \o elem_id
    ELSE IF Len(elem_class) > 0 THEN element_type \o "." \o Join(elem_class, ".")
    ELSE IF elem_type # "" THEN element_type \o "[type='" \o elem_type \o "']"
    ELSE element_type

\* HTMLParser._build_css_selector; elem_class is the class list.
build_css_selector(element_type, elem_id, elem_name, elem_class, elem_type) ==
    IF elem_id # "" THEN "#" \o elem_id
    ELSE IF elem_name # "" THEN element_type \o "[name='" \o elem_name \o "']"
    ELSE IF elem_type # "" THEN element_type \o "[type='" \o elem_type \o "']"
    ELSE IF Len(elem_class) > 0 THEN element_type \o "." \o Join(elem_class, ".")
    ELSE element_type

\* The longest text_content kept of an element.
TEXT_LIMIT == 100

RECURSIVE Concat(_)
Concat(seqs) == IF Len(seqs) = 0 THEN <<>> ELSE Head(seqs) \o Concat(Tail(seqs))

\* Whether node j is node i or lies inside it.
RECURSIVE Within(_, _, _)
Within(nodes, j, i) ==
    IF j = 0 THEN FALSE
    ELSE IF j = i THEN TRUE
    ELSE Within(nodes, nodes[j].parent, i)

\* elem.get_text(strip=True): the stripped, non-empty strings inside node i.
ElementText(nodes, i) ==
    LET Inside(j) == Within(nodes, j, i) /\ Strip(nodes[j].txt) # <<>>
        inside == SelectSeq(Indices(nodes), Inside)
    IN Concat([k \in 1..Len(inside) |-> Strip(nodes[inside[k]].txt)])

\* HTMLParser._create_selector_info
create_selector_info(nodes, i, element_type) ==
    [element_type |-> element_type,
     element_id |-> nodes[i].id,
     element_name |-> nodes[i].name,
     element_class |-> nodes[i].cls,
     input_type |-> nodes[i].type,
     css_selector |-> build_css_selector(element_type, nodes[i].id, nodes[i].name,
                                         nodes[i].cls, nodes[i].type),
     xpath |-> build_xpath(nodes, i),
     text_content |-> Slice(ElementText(nodes, i), 0, TEXT_LIMIT),
     placeholder |-> nodes[i].placeholder,
     value |-> nodes[i].value]

\* target_elements, in the order the extractor visits them.
target_elements == <<"input", "button", "select", "textarea", "a", "form">>

\* soup.find_all(element_type): the nodes of that tag, in document order.
find_all(nodes, element_type) ==
    LET IsTag(j) == nodes[j].tag = element_type
    IN SelectSeq(Indices(nodes), IsTag)

\* The order, were the elements emitted as they stand in the document.
ExtractOrderDocument(nodes) ==
    LET IsTarget(j) == \E t \in 1..Len(target_elements) : nodes[j].tag = target_elements[t]
    IN SelectSeq(Indices(nodes), IsTarget)

\* The nodes in the order extract_selectors emits them: kind by kind.
ExtractOrder(nodes) ==
    Concat([t \in 1..Len(target_elements) |-> find_all(nodes, target_elements[t])])

\* HTMLParser.extract_selectors
extract_selectors(nodes) ==
    LET order == ExtractOrder(nodes)
    IN [k \in 1..Len(order) |-> create_selector_info(nodes, order[k], nodes[order[k]].tag)]

\* chunk_text as a whole: the loop run from start with the chunks so far.
RECURSIVE ChunkLoop(_, _, _, _, _)
ChunkLoop(s, size, ov, from, acc) ==
    IF from < Len(s)
    THEN LET to == CutEnd(s, from, size)
         IN ChunkLoop(s, size, ov, NextStart(to, ov), Append(acc, ChunkAt(s, from, to)))
    ELSE acc

chunk_text(s, size, ov) ==
    IF FitsOneChunk(s, size) THEN ShortResult(s) ELSE ChunkLoop(s, size, ov, 0, <<>>)

\* ------------------------------------------------------- files and parsing
\* A path is its directory, its base name and the suffix of that name.
Path(dir, name, suffix) == [dir |-> dir, name |-> name, suffix |-> suffix]

\* str.lower() on the suffixes that occur.
Lower(suffix) ==
    CASE suffix = ".MD" -> ".md"
      [] suffix = ".HTM" -> ".htm"
      [] OTHER -> suffix

\* What a file holds, as its reader sees it: whether it can be opened, its
\* characters, whether they are well-formed JSON and the keys of the object
\* they hold, the element tree an HTML parser makes of it, and the text of
\* its pages when read as a PDF.
File(readable, chars, json_ok, data, nodes, pages) ==
    [readable |-> readable, chars |-> chars, json_ok |-> json_ok, data |-> data,
     nodes |-> nodes, pages |-> pages]

TextFile(chars) == File(TRUE, chars, FALSE, <<>>, <<>>, <<>>)

RECURSIVE JoinSeq(_, _)
JoinSeq(parts, sep) ==
    IF Len(parts) = 0 THEN <<>>
    ELSE IF Len(parts) = 1 THEN parts[1]
    ELSE parts[1] \o sep \o JoinSeq(Tail(parts), sep)

\* json.dumps(data, indent=2) of an object whose values are all 1.
JsonDumps(data) ==
    IF Len(data) = 0 THEN <<"{", "}">>
    ELSE <<"{", Newline>>
         \o JoinSeq([k \in 1..Len(data) |->
                       <<Space, Space, "\"", data[k], "\"", ":", Space, "1">>],
                    <<",", Newline>>)
         \o <<Newline, "}">>

\* soup.get_text() once the script and style elements are removed.
DocText(nodes) ==
    LET Hidden(j) == \E i \in 1..Len(nodes) :
                        nodes[i].tag \in {"script", "style"} /\ Within(nodes, j, i)
        Shown(j) == ~Hidden(j)
        shown == SelectSeq(Indices(nodes), Shown)
    IN Concat([k \in 1..Len(shown) |-> nodes[shown[k]].txt])

ParseError == [ok |-> FALSE]

\* DocumentParser.parse_file and the parser it dispatches to.
parse_file(path, file) ==
    LET ext == Lower(path.suffix)
    IN CASE ext \notin {".html", ".htm", ".md", ".txt", ".json", ".pdf"} -> ParseError
         [] ~file.readable -> ParseError
         [] ext \in {".html", ".htm"} ->
              [ok |-> TRUE, type |-> "html", text |-> clean_text(DocText(file.nodes)),
               selectors |-> extract_selectors(file.nodes)]
         [] ext = ".md" ->
              [ok |-> TRUE, type |-> "markdown", text |-> clean_text(file.chars),
               selectors |-> <<>>]
         [] ext = ".txt" ->
              [ok |-> TRUE, type |-> "text", text |-> clean_text(file.chars),
               selectors |-> <<>>]
         [] ext = ".json" ->
              IF file.json_ok
              THEN [ok |-> TRUE, type |-> "json", text |-> JsonDumps(file.data),
                    selectors |-> <<>>]
              ELSE ParseError
         [] OTHER ->
              [ok |-> TRUE, type |-> "pdf",
               text |-> clean_text(JoinSeq(file.pages, <<Newline>>)), selectors |-> <<>>]

\* ---------------------------------------------------------------- chunking
\* The chunks of a document, were they numbered from one.
chunk_document_from_one(filename, doc_type, txt, size, ov) ==
    IF Strip(txt) = <<>> THEN <<>>
    ELSE LET chunks_text == chunk_text(txt, size, ov)
         IN [idx \in 1..Len(chunks_text) |->
               [text |-> chunks_text[idx],
                metadata |-> [source |-> filename, type |-> doc_type,
                              chunk_index |-> idx,
                              total_chunks |-> Len(chunks_text)]]]

\* TextChunker.chunk_document, filename being Path(file_path).name
chunk_document(filename, doc_type, txt, size, ov) ==
    IF Strip(txt) = <<>> THEN <<>>
    ELSE LET chunks_text == chunk_text(txt, size, ov)
         IN [idx \in 1..Len(chunks_text) |->
               [text |-> chunks_text[idx],
                metadata |-> [source |-> filename, type |-> doc_type,
                              chunk_index |-> idx - 1,
                              total_chunks |-> Len(chunks_text)]]]

\* The text line, were the name put before the id.
SelectorTextNameFirst(selector) ==
    JoinSeq(<< <<"Element Type: " \o selector.element_type>> >>
            \o (IF selector.element_name # "" THEN << <<"Name: " \o selector.element_name>> >> ELSE <<>>)
            \o (IF selector.element_id # "" THEN << <<"ID: " \o selector.element_id>> >> ELSE <<>>)
            \o (IF selector.placeholder # "" THEN << <<"Placeholder: " \o selector.placeholder>> >> ELSE <<>>)
            \o (IF selector.text_content # <<>> THEN << <<"Text: ">> \o selector.text_content >> ELSE <<>>),
            <<" | ">>)

\* The text line of one selector chunk: its parts joined with " | ".
SelectorText(selector) ==
    JoinSeq(<< <<"Element Type: " \o selector.element_type>> >>
            \o (IF selector.element_id # "" THEN << <<"ID: " \o selector.element_id>> >> ELSE <<>>)
            \o (IF selector.element_name # "" THEN << <<"Name: " \o selector.element_name>> >> ELSE <<>>)
            \o (IF selector.placeholder # "" THEN << <<"Placeholder: " \o selector.placeholder>> >> ELSE <<>>)
            \o (IF selector.text_content # <<>> THEN << <<"Text: ">> \o selector.text_content >> ELSE <<>>),
            <<" | ">>)

\* TextChunker.chunk_selectors
chunk_selectors(selectors, filename) ==
    [idx \in 1..Len(selectors) |->
       [text |-> SelectorText(selectors[idx]),
        metadata |-> [source |-> filename, type |-> "html_selector",
                      element_type |-> selectors[idx].element_type,
                      element_id |-> selectors[idx].element_id,
                      element_name |-> selectors[idx].element_name,
                      css_selector |-> selectors[idx].css_selector,
                      xpath |-> selectors[idx].xpath,
                      placeholder |-> selectors[idx].placeholder,
                      input_type |-> selectors[idx].input_type]]]

\* The chunks of one parsed file, were its text chunked whatever it holds.
FileChunksUnguarded(path, parsed, size, ov) ==
    LET chunks_text == chunk_text(parsed.text, size, ov)
    IN [idx \in 1..Len(chunks_text) |->
          [text |-> chunks_text[idx],
           metadata |-> [source |-> path.name, type |-> parsed.type,
                         chunk_index |-> idx - 1, total_chunks |-> Len(chunks_text)]]]
       \o (IF parsed.type = "html" /\ parsed.selectors # <<>>
           THEN chunk_selectors(parsed.selectors, path.name)
           ELSE <<>>)

\* The chunks build_knowledge_base gathers for one parsed file; both kinds
\* of chunk carry the file's name as their source.
FileChunks(path, parsed, size, ov) ==
    (IF parsed.text # <<>>
     THEN chunk_document(path.name, parsed.type, parsed.text, size, ov)
     ELSE <<>>)
    \o (IF parsed.type = "html" /\ parsed.selectors # <<>>
        THEN chunk_selectors(parsed.selectors, path.name)
        ELSE <<>>)

\* ------------------------------------------------------------ vector store
\* dict.get(key, default)
Get(d, key, default) == IF key \in DOMAIN d THEN d[key] ELSE default

\* The ids, were they made of the chunk_index alone.
ChunkIdNoOrdinal(chunk, i) ==
    "doc_" \o ToString(Get(chunk.metadata, "chunk_index", i))

\* The ids add_documents gives the chunks of one call.
ChunkId(chunk, i) ==
    "doc_" \o ToString(i) \o "_" \o ToString(Get(chunk.metadata, "chunk_index", i))

\* The entries add_documents hands to the collection for a batch.
BatchEntries(batch) ==
    {[id |-> ChunkId(batch[k], k - 1), text |-> batch[k].text,
      metadata |-> batch[k].metadata] : k \in 1..Len(batch)}

Ids(entries) == {e.id : e \in entries}

\* VectorStore.get_collection_stats()["total_documents"]
Count(coll) == Cardinality(coll.entries)

\* VectorStore.get_all_sources, as a set (the code sorts it for display).
get_all_sources(coll) ==
    {e.metadata.source : e \in {x \in coll.entries : "source" \in DOMAIN x.metadata}}

\* RAGPipeline.get_kb_stats
get_kb_stats(coll) ==
    [total_chunks |-> Count(coll),
     unique_sources |-> Cardinality(get_all_sources(coll)),
     sources |-> get_all_sources(coll)]

\* ------------------------------------------------- reconstructing selectors
\* The reconstruction, were the placeholder not read back.
selector_data_no_placeholder(metadata) ==
    [element_type |-> Get(metadata, "element_type", ""),
     element_id |-> Get(metadata, "element_id", ""),
     element_name |-> Get(metadata, "element_name", ""),
     css_selector |-> Get(metadata, "css_selector", ""),
     xpath |-> Get(metadata, "xpath", ""),
     placeholder |-> "",
     input_type |-> Get(metadata, "input_type", "")]

\* _extract_html_selectors: selector_data, read back from the metadata.
selector_data(metadata) ==
    [element_type |-> Get(metadata, "element_type", ""),
     element_id |-> Get(metadata, "element_id", ""),
     element_name |-> Get(metadata, "element_name", ""),
     css_selector |-> Get(metadata, "css_selector", ""),
     xpath |-> Get(metadata, "xpath", ""),
     placeholder |-> Get(metadata, "placeholder", ""),
     input_type |-> Get(metadata, "input_type", "")]

\* The key of a reconstructed element when the dict holds n keys already.
SelectorKey(data, n) ==
    IF data.element_id # "" THEN data.element_id
    ELSE IF data.element_name # "" THEN data.element_name
    ELSE data.element_type \o "_" \o ToString(n)

IsSelectorResult(result) == Get(result.metadata, "type", "") = "html_selector"

\* selectors[key] = selector_data
Put(d, key, value) == [x \in DOMAIN d \cup {key} |-> IF x = key THEN value ELSE d[x]]

EmptyDict == [x \in {} |-> x]

\* RAGPipeline._extract_html_selectors over the first k results.
RECURSIVE SelectorsUpTo(_, _)
SelectorsUpTo(results, k) ==
    IF k = 0 THEN EmptyDict
    ELSE LET before == SelectorsUpTo(results, k - 1)
             data == selector_data(results[k].metadata)
         IN IF IsSelectorResult(results[k])
            THEN Put(before, SelectorKey(data, Cardinality(DOMAIN before)), data)
            ELSE before

extract_html_selectors(results) == SelectorsUpTo(results, Len(results))

\* The key under which result k was stored.
KeyAt(results, k) ==
    SelectorKey(selector_data(results[k].metadata),
                Cardinality(DOMAIN SelectorsUpTo(results, k - 1)))

\* ------------------------------------------------------------------ state
VARIABLES
    text,             \* chunk_text: the argument text
    chunk_size,       \* chunk_text: the argument chunk_size
    overlap,          \* chunk_text: the argument overlap
    start,            \* chunk_text: the local start
    chunks,           \* chunk_text: the local chunks, returned when pc = "done"
    cuts,             \* the windows <<start, end>> chunk_text has cut, in order
    pc,               \* chunk_text: "call", "loop", "body", "done"; "off" when not run
    markup,           \* extract_selectors: the parsed markup it is given
    disk,             \* the files on disk, by path
    config,           \* Config.CHUNK_SIZE and Config.CHUNK_OVERLAP
    collection,       \* the collection: whether it exists, and its entries
    b_pc,             \* build_knowledge_base: "idle", "clear", "files", "add";
                      \* "create" within clear_collection when run by statements
    file_paths,       \* build_knowledge_base: the argument file_paths
    clear_existing,   \* build_knowledge_base: the argument clear_existing
    idx,              \* build_knowledge_base: the place of the next file
    all_chunks,       \* build_knowledge_base: the local all_chunks
    processed_files,  \* build_knowledge_base: the local processed_files
    cleared,          \* how clear_collection ended in this build, "none" if not run
    prior,            \* the collection as it was when this build was called
    builds,           \* the number of calls of build_knowledge_base so far
    call,             \* the arguments of the function called on its own
    llm,              \* _call_llm_with_retry: its argument, locals and position
    services,         \* add_documents on its own: its calls of the model and the index
    uploaded_documents, \* main.py: the global uploaded_documents
    uploaded_html,    \* main.py: the global uploaded_html, <<>> for None
    requests,         \* main.py: the uploads and clearings answered so far
    ret               \* what the last operation returned, until the next step

chunkVars == <<text, chunk_size, overlap, start, chunks, cuts, pc>>
buildVars == <<b_pc, file_paths, clear_existing, idx, all_chunks, processed_files,
               cleared, prior>>
storeVars == <<disk, config, collection>>
sideVars == <<call, llm, services, uploaded_documents, uploaded_html, requests>>
vars == <<chunkVars, markup, storeVars, buildVars, builds, sideVars, ret>>

NoReturn == [op |-> "none"]

NoCollection == [exists |-> TRUE, entries |-> {}]

\* The values of the variables of a part of the program that is not running.
ChunkOff ==
    /\ text = <<>>
    /\ chunk_size = 1
    /\ overlap = 0
    /\ start = 0
    /\ chunks = <<>>
    /\ cuts = <<>>
    /\ pc = "off"

BuildIdle ==
    /\ b_pc = "idle"
    /\ file_paths = <<>>
    /\ clear_existing = FALSE
    /\ idx = 1
    /\ all_chunks = <<>>
    /\ processed_files = <<>>
    /\ cleared = "none"
    /\ prior = NoCollection
    /\ builds = 0

NoCall == [fn |-> "none"]

LlmOff == [pc |-> "off"]

SideOff ==
    /\ call = NoCall
    /\ llm = LlmOff
    /\ services = <<>>
    /\ uploaded_documents = <<>>
    /\ uploaded_html = <<>>
    /\ requests = 0

StoreOff ==
    /\ disk = <<>>
    /\ config = [CHUNK_SIZE |-> 1, CHUNK_OVERLAP |-> 0]
    /\ collection = NoCollection

\* ------------------------------------------------ chunk_text, step by step
\* The texts of length n whose characters are the letter but for at most
\* MaxMarks positions holding a space or a full stop.
TextsOfLen(n) ==
    UNION {{[i \in 1..n |-> IF i \in P THEN m[i] ELSE Letter] : m \in [P -> {Space, Dot}]} :
             P \in {Q \in SUBSET (1..n) : Cardinality(Q) <= MaxMarks}}

Texts == UNION {TextsOfLen(n) : n \in 0..MaxLen}

ChunkInit ==
    /\ text \in Texts
    /\ chunk_size \in 1..MaxSize
    /\ overlap \in 0..chunk_size
    /\ start = 0
    /\ chunks = <<>>
    /\ cuts = <<>>
    /\ pc = "call"
    /\ markup = <<>>
    /\ StoreOff
    /\ BuildIdle
    /\ SideOff
    /\ ret = NoReturn

\* if len(text) <= chunk_size: return [text]
ReturnShort ==
    /\ pc = "call"
    /\ FitsOneChunk(text, chunk_size)
    /\ chunks' = ShortResult(text)
    /\ cuts' = << <<0, Len(text)>> >>
    /\ pc' = "done"
    /\ UNCHANGED <<text, chunk_size, overlap, start, markup, sideVars, storeVars, buildVars, builds, ret>>

\* chunks = []; start = 0
EnterLoop ==
    /\ pc = "call"
    /\ ~FitsOneChunk(text, chunk_size)
    /\ pc' = "loop"
    /\ UNCHANGED <<text, chunk_size, overlap, start, chunks, cuts, markup, sideVars, storeVars,
                   buildVars, builds, ret>>

\* "while start < len(text)": the condition holds and the body is entered.
LoopTest ==
    /\ pc = "loop"
    /\ start < Len(text)
    /\ pc' = "body"
    /\ UNCHANGED <<text, chunk_size, overlap, start, chunks, cuts, markup, sideVars, storeVars,
                   buildVars, builds, ret>>

\* The body of the loop: the window is cut, its chunk appended and start
\* moved.  The lists are kept to MaxChunks entries; what the loop does next
\* depends on start alone.
LoopStep ==
    /\ pc = "body"
    /\ LET end == CutEnd(text, start, chunk_size)
       IN /\ chunks' = IF Len(chunks) < MaxChunks
                        THEN Append(chunks, ChunkAt(text, start, end))
                        ELSE chunks
          /\ cuts' = IF Len(cuts) < MaxChunks
                      THEN Append(cuts, <<start, end>>)
                      ELSE cuts
          /\ start' = NextStart(end, overlap)
    /\ pc' = "loop"
    /\ UNCHANGED <<text, chunk_size, overlap, markup, sideVars, storeVars, buildVars, builds, ret>>

\* The loop condition fails: return chunks.
LoopExit ==
    /\ pc = "loop"
    /\ start >= Len(text)
    /\ pc' = "done"
    /\ UNCHANGED <<text, chunk_size, overlap, start, chunks, cuts, markup, sideVars, storeVars,
                   buildVars, builds, ret>>

\* chunk_document on the text, with the sizes as configured: chunk_text has
\* returned, and its chunks are given their metadata.
ChunkDocument ==
    /\ pc = "done"
    /\ ret.op = "none"
    /\ ret' = [op |-> "chunk_document",
               chunks |-> chunk_document("t.txt", "text", text, chunk_size, overlap)]
    /\ UNCHANGED <<chunkVars, markup, sideVars, storeVars, buildVars, builds>>

ChunkNext == ReturnShort \/ EnterLoop \/ LoopTest \/ LoopStep \/ LoopExit

ChunkSpec == ChunkInit /\ [][ChunkNext]_vars

\* The interpreter runs the function on: a step that can be taken is taken.
ChunkFairSpec == ChunkSpec /\ WF_vars(ChunkNext)

\* chunk_text as called by chunk_document.
DocumentNext == ChunkNext \/ ChunkDocument

DocumentSpec == ChunkInit /\ [][DocumentNext]_vars

\* ------------------------------------------------------ extract_selectors
Plain(tag, parent) == Node(tag, parent, "", "", <<>>, "", "", "", <<>>)

\* The elements a generated tree is made of, before they are given a parent.
ElementVariants ==
    {Plain("input", 0),
     Node("input", 0, "", "", <<>>, "text", "", "", <<>>),
     Node("input", 0, "", "y", <<>>, "text", "", "", <<>>),
     Node("input", 0, "x", "y", <<>>, "", "", "", <<>>),
     Node("input", 0, "", "", <<"c1", "c2">>, "", "e", "", <<>>),
     Node("input", 0, "", "", <<"c1">>, "text", "", "", <<>>),
     Plain("a", 0),
     Plain("button", 0),
     Node("button", 0, "", "", <<>>, "", "", "", <<Letter>>),
     Plain("div", 0)}

\* The trees of n nodes: every node lies in the document or in an earlier div.
RECURSIVE TreesOf(_)
TreesOf(n) ==
    IF n = 0 THEN {<<>>}
    ELSE UNION {{Append(t, [v EXCEPT !.parent = p]) :
                   v \in ElementVariants,
                   p \in {0} \cup {j \in 1..Len(t) : t[j].tag = "div"}} :
                t \in TreesOf(n - 1)}

Markups(most) == UNION {TreesOf(n) : n \in 0..most}

ExtractInit ==
    /\ markup \in Markups(MaxNodes)
    /\ ChunkOff
    /\ StoreOff
    /\ BuildIdle
    /\ SideOff
    /\ ret = NoReturn

\* HTMLParser.extract_selectors(html_content)
ExtractSelectors ==
    /\ ret.op = "none"
    /\ ret' = [op |-> "extract", selectors |-> extract_selectors(markup)]
    /\ UNCHANGED <<chunkVars, markup, sideVars, storeVars, buildVars, builds>>

\* The one element _extract_html_selectors reconstructs from one result.
Reconstructed(result) ==
    LET selectors == extract_html_selectors(<<result>>)
    IN selectors[CHOOSE key \in DOMAIN selectors : TRUE]

\* The elements extracted are made into selector chunks by chunk_selectors,
\* and each chunk, as a search would return it, is given to
\* _extract_html_selectors.
FlattenAndRebuild ==
    /\ ret.op = "extract"
    /\ LET selector_chunks == chunk_selectors(ret.selectors, "f.html")
       IN ret' = [op |-> "flatten", selectors |-> ret.selectors,
                  chunks |-> selector_chunks,
                  rebuilt |-> [k \in 1..Len(selector_chunks) |->
                                 Reconstructed(selector_chunks[k])]]
    /\ UNCHANGED <<chunkVars, markup, sideVars, storeVars, buildVars, builds>>

ExtractNext == ExtractSelectors \/ FlattenAndRebuild

ExtractSpec == ExtractInit /\ [][ExtractNext]_vars

\* ------------------------------------------------------------ the pipeline
\* The files of the small knowledge base and their paths.
DocA == Path("up", "a.MD", ".MD")
DocB == Path("up", "b.txt", ".txt")
DocC == Path("up", "c.json", ".json")
DocE == Path("up", "e.csv", ".csv")
DocF == Path("up", "f.html", ".html")

\* a.MD: prose with a doubled space; b.txt: cannot be opened; c.json: not
\* JSON; e.csv: a type the parser does not know; f.html: a paragraph of one
\* letter and two inputs, the second with an id.
SmallDisk ==
    (DocA :> TextFile(<<Letter, Dot, Space, Space, Letter, Letter>>))
    @@ (DocB :> File(FALSE, <<>>, FALSE, <<>>, <<>>, <<>>))
    @@ (DocC :> File(TRUE, <<"{">>, FALSE, <<>>, <<>>, <<>>))
    @@ (DocE :> TextFile(<<Letter>>))
    @@ (DocF :> File(TRUE, <<>>, FALSE, <<>>,
                     <<Node("p", 0, "", "", <<>>, "", "", "", <<Letter>>),
                       Plain("input", 0),
                       Node("input", 0, "input_1", "", <<>>, "", "", "", <<>>)>>,
                     <<>>))

\* A configuration of the size of the small files.
SmallConfig == [CHUNK_SIZE |-> 4, CHUNK_OVERLAP |-> 1]

Init ==
    /\ disk = SmallDisk
    /\ config = SmallConfig
    /\ collection = [exists |-> TRUE, entries |-> {}]
    /\ BuildIdle
    /\ SideOff
    /\ ChunkOff
    /\ markup = <<>>
    /\ ret = NoReturn

\* The lists of at most MaxFiles paths of files on the disk.
PathLists == UNION {[1..n -> DOMAIN disk] : n \in 0..MaxFiles}

\* build_knowledge_base(file_paths, clear_existing) is called with one of
\* the given lists of paths.
BuildCallOf(lists) ==
    /\ b_pc = "idle"
    /\ builds < MaxBuilds
    /\ builds' = builds + 1
    /\ \E paths \in lists, clear \in BOOLEAN :
          /\ file_paths' = paths
          /\ clear_existing' = clear
          /\ b_pc' = IF clear THEN "clear" ELSE IF paths = <<>> THEN "add" ELSE "files"
    /\ idx' = 1
    /\ all_chunks' = <<>>
    /\ processed_files' = <<>>
    /\ cleared' = "none"
    /\ prior' = collection
    /\ ret' = NoReturn
    /\ UNCHANGED <<chunkVars, markup, sideVars, storeVars>>

BuildCall == BuildCallOf(PathLists)

\* clear_collection, were it to recreate nothing and keep the entries.
ClearOutcomesKeep(coll) ==
    {[how |-> "delete_failed", coll |-> coll]}
    \cup (IF coll.exists THEN {[how |-> "ok", coll |-> coll]} ELSE {})

\* What clear_collection can make of the collection: both calls succeed;
\* delete_collection raises (as it must when there is no collection);
\* delete_collection succeeds and create_collection raises.
ClearOutcomes(coll) ==
    {[how |-> "delete_failed", coll |-> coll]}
    \cup (IF coll.exists
          THEN {[how |-> "ok", coll |-> [exists |-> TRUE, entries |-> {}]],
                [how |-> "create_failed", coll |-> [exists |-> FALSE, entries |-> {}]]}
          ELSE {})

\* if clear_existing: self.vector_store.clear_collection()
BuildClear ==
    /\ b_pc = "clear"
    /\ \E o \in ClearOutcomes(collection) :
          /\ collection' = o.coll
          /\ cleared' = o.how
    /\ b_pc' = IF file_paths = <<>> THEN "add" ELSE "files"
    /\ ret' = NoReturn
    /\ UNCHANGED <<chunkVars, markup, sideVars, disk, config, file_paths, clear_existing, idx,
                   all_chunks, processed_files, prior, builds>>

\* One pass of the loop, were the except clause to end the loop.
BuildFileAbort ==
    /\ b_pc = "files"
    /\ LET path == file_paths[idx]
           parsed == parse_file(path, disk[path])
       IN IF parsed.ok
          THEN /\ all_chunks' = all_chunks
                                  \o FileChunks(path, parsed, config.CHUNK_SIZE,
                                                config.CHUNK_OVERLAP)
               /\ processed_files' = Append(processed_files, path.name)
               /\ b_pc' = IF idx = Len(file_paths) THEN "add" ELSE "files"
          ELSE /\ UNCHANGED <<all_chunks, processed_files>>
               /\ b_pc' = "add"
    /\ idx' = idx + 1
    /\ ret' = NoReturn
    /\ UNCHANGED <<chunkVars, markup, sideVars, storeVars, file_paths, clear_existing, cleared, prior,
                   builds>>

\* A pass of the loop that adds the chunks of its file to the collection at
\* once.
BuildFileAddsEach ==
    /\ b_pc = "files"
    /\ LET path == file_paths[idx]
           parsed == parse_file(path, disk[path])
           file_chunks == FileChunks(path, parsed, config.CHUNK_SIZE, config.CHUNK_OVERLAP)
       IN IF parsed.ok
          THEN /\ all_chunks' = all_chunks \o file_chunks
               /\ processed_files' = Append(processed_files, path.name)
               /\ collection' = [collection EXCEPT !.entries =
                                    @ \cup {e \in BatchEntries(file_chunks) : e.id \notin Ids(@)}]
          ELSE UNCHANGED <<all_chunks, processed_files, collection>>
    /\ idx' = idx + 1
    /\ b_pc' = IF idx = Len(file_paths) THEN "add" ELSE "files"
    /\ ret' = NoReturn
    /\ UNCHANGED <<chunkVars, markup, sideVars, disk, config, file_paths, clear_existing, cleared,
                   prior, builds>>

\* One pass of "for file_path in file_paths", with its try and except.
BuildFile ==
    /\ b_pc = "files"
    /\ LET path == file_paths[idx]
           parsed == parse_file(path, disk[path])
       IN IF parsed.ok
          THEN /\ all_chunks' = all_chunks
                                  \o FileChunks(path, parsed, config.CHUNK_SIZE,
                                                config.CHUNK_OVERLAP)
               /\ processed_files' = Append(processed_files, path.name)
          ELSE UNCHANGED <<all_chunks, processed_files>>
    /\ idx' = idx + 1
    /\ b_pc' = IF idx = Len(file_paths) THEN "add" ELSE "files"
    /\ ret' = NoReturn
    /\ UNCHANGED <<chunkVars, markup, sideVars, storeVars, file_paths, clear_existing, cleared, prior,
                   builds>>

\* What add_documents can make of the collection with a non-empty batch: the
\* embedding or the index raises and nothing is written; or the entries are
\* added, those whose id the collection holds already being left out.
AddOutcomes(coll, batch) ==
    {[ok |-> FALSE, coll |-> coll]}
    \cup (IF coll.exists
          THEN {[ok |-> TRUE,
                 coll |-> [coll EXCEPT !.entries =
                             @ \cup {e \in BatchEntries(batch) : e.id \notin Ids(@)}]]}
          ELSE {})

\* What build_knowledge_base returns; call, cleared, batch and prior record
\* the call it answers, how its clear_collection ended, the chunks it
\* gathered and the collection it found.
BuildResult(num_chunks) ==
    [op |-> "build", success |-> TRUE, num_chunks |-> num_chunks,
     num_documents |-> Len(processed_files), processed_files |-> processed_files,
     call |-> [file_paths |-> file_paths, clear_existing |-> clear_existing],
     cleared |-> cleared, batch |-> all_chunks, prior |-> prior]

\* build_knowledge_base ends with the exception add_documents raised.
BuildError ==
    [op |-> "build_error",
     call |-> [file_paths |-> file_paths, clear_existing |-> clear_existing],
     cleared |-> cleared, batch |-> all_chunks, prior |-> prior]

\* num_chunks = self.vector_store.add_documents(all_chunks), and the return.
BuildAdd ==
    /\ b_pc = "add"
    /\ IF all_chunks = <<>>
       THEN /\ ret' = BuildResult(0)
            /\ UNCHANGED collection
       ELSE \E o \in AddOutcomes(collection, all_chunks) :
               /\ collection' = o.coll
               /\ ret' = IF o.ok THEN BuildResult(Len(all_chunks)) ELSE BuildError
    /\ b_pc' = "idle"
    /\ file_paths' = <<>>
    /\ clear_existing' = FALSE
    /\ idx' = 1
    /\ all_chunks' = <<>>
    /\ processed_files' = <<>>
    /\ cleared' = "none"
    /\ prior' = NoCollection
    /\ UNCHANGED <<chunkVars, markup, sideVars, disk, config, builds>>

\* The lists of n distinct entries: what a search for n results can return,
\* nearest first, the distances being the embedding model's.
Rankings(entries, n) ==
    {r \in [1..n -> entries] : \A i, j \in 1..n : i # j => r[i] # r[j]}

\* The similarities a search reports, in hundredths.
Similarities == {50, 100}

\* f"{similarity:.2f}" of a similarity given in hundredths.
Fmt2(h) == ToString(h \div 100) \o "." \o ToString((h % 100) \div 10) \o ToString(h % 10)

\* The result lists a search for n results can return: a ranking, each entry
\* with its similarity, the nearest first.
SearchResults(entries, n) ==
    {[k \in 1..n |-> [id |-> r[k].id, text |-> r[k].text, metadata |-> r[k].metadata,
                      similarity |-> sims[k]]] :
        r \in Rankings(entries, n),
        sims \in {f \in [1..n -> Similarities] : \A k \in 1..(n - 1) : f[k] >= f[k + 1]}}

\* What VectorStore.search can come to: the embedding or the index raises,
\* as the index must when the collection is gone; or top_k results, fewer
\* when the collection holds fewer.
SearchOutcomes(coll, top_k) ==
    {[ok |-> FALSE]}
    \cup (IF coll.exists
          THEN {[ok |-> TRUE, results |-> r] :
                  r \in SearchResults(coll.entries,
                                      IF top_k < Count(coll) THEN top_k ELSE Count(coll))}
          ELSE {})

\* The sentence that stands for an empty context.
NO_CONTEXT == <<"No relevant context found.">>

\* _format_context_with_sources on results that are not empty: the heading
\* and, for each result, its attribution line and its text.
FormatResults(results) ==
    JoinSeq(<< <<"RETRIEVED CONTEXT:\n">> >>
            \o [k \in 1..Len(results) |->
                  <<"[" \o ToString(k) \o "] Source: "
                      \o Get(results[k].metadata, "source", "unknown")
                      \o " | Type: " \o Get(results[k].metadata, "type", "unknown")
                      \o " | Relevance: " \o Fmt2(results[k].similarity) \o "\n">>
                  \o results[k].text \o <<"\n">>],
            <<"\n">>)

\* _format_context_with_sources, were it to return the empty string for no
\* results.
format_context_no_sentence(results) ==
    IF results = <<>> THEN <<>> ELSE FormatResults(results)

\* RAGPipeline._format_context_with_sources
format_context_with_sources(results) ==
    IF results = <<>> THEN NO_CONTEXT ELSE FormatResults(results)

\* What retrieve_context makes of the results of the search.
retrieve_context(results) ==
    [context |-> format_context_with_sources(results),
     sources |-> {Get(results[k].metadata, "source", "unknown") : k \in 1..Len(results)},
     results |-> results,
     html_selectors |-> extract_html_selectors(results)]

\* retrieve_context(query, top_k): the search and what is made of its
\* results.  The handlers run one at a time on the server's event loop, so a
\* query finds no build under way.
Query ==
    /\ b_pc = "idle"
    /\ \E top_k \in 1..MaxTopK :
          \E o \in SearchOutcomes(collection, top_k) :
             ret' = IF o.ok
                    THEN [op |-> "query"] @@ retrieve_context(o.results)
                    ELSE [op |-> "query_error"]
    /\ UNCHANGED <<chunkVars, markup, sideVars, storeVars, buildVars, builds>>

\* A test of the endpoint that takes only the empty string for an empty
\* context.
ContextIsEmptyString(context) == context = <<>>

\* The test of the generate_test_cases endpoint for a context with nothing
\* in it: not context_data["context"], or the sentence of the empty context.
ContextIsEmpty(context) == context = <<>> \/ context = NO_CONTEXT

\* What TestCaseAgent.generate_test_cases can come to for the endpoint: the
\* test cases, or an exception.
GenerationOutcomes == {"test_cases", "raises"}

\* What the endpoint answers once the context is retrieved: not found
\* without calling the generation when the context is empty, else what the
\* generation comes to.
EndpointAnswers(context_data) ==
    IF ContextIsEmpty(context_data.context)
    THEN {[op |-> "generate_test_cases", received |-> TRUE, invoked |-> FALSE,
           status |-> 404, context |-> context_data.context]}
    ELSE {[op |-> "generate_test_cases", received |-> TRUE, invoked |-> TRUE,
           status |-> IF g = "raises" THEN 500 ELSE 200,
           context |-> context_data.context] : g \in GenerationOutcomes}

\* POST /generate_test_cases: the context is retrieved with the configured
\* Config.TOP_K_RETRIEVAL; a retrieval that raises is answered 500.
GenerateTestCases ==
    /\ b_pc = "idle"
    /\ \E top_k \in 1..MaxTopK :
          \E o \in SearchOutcomes(collection, top_k) :
             IF o.ok
             THEN ret' \in EndpointAnswers(retrieve_context(o.results))
             ELSE ret' = [op |-> "generate_test_cases", received |-> FALSE,
                          invoked |-> FALSE, status |-> 500, context |-> <<>>]
    /\ UNCHANGED <<chunkVars, markup, sideVars, storeVars, buildVars, builds>>

\* The process starts again: VectorStore.__init__ gets or creates the collection.
Restart ==
    /\ b_pc = "idle"
    /\ collection' = [collection EXCEPT !.exists = TRUE]
    /\ ret' = NoReturn
    /\ UNCHANGED <<chunkVars, markup, sideVars, disk, config, buildVars, builds>>

Next == BuildCall \/ BuildClear \/ BuildFile \/ BuildAdd \/ Restart

Spec == Init /\ [][Next]_vars

\* The lists of paths the builds between queries are called with.
QueryLists == {<<>>, <<DocF>>, <<DocC, DocA>>}

QueryBuildCall == BuildCallOf(QueryLists)

\* The builds, and the queries between them.
QueryNext ==
    \/ QueryBuildCall \/ BuildClear \/ BuildFile \/ BuildAdd \/ Restart
    \/ Query \/ GenerateTestCases

QuerySpec == Init /\ [][QueryNext]_vars

\* ------------------------------------------- searches while a build runs
\* The pipeline used from several threads: one runs build_knowledge_base,
\* others call search.  The calls of the index are the steps; the two calls
\* of clear_collection are two steps.
ConcBuildCall == BuildCallOf(QueryLists)

\* clear_collection: self.client.delete_collection(self.collection_name).
\* It raises when there is no collection and may raise otherwise; the
\* except clause then ends clear_collection.
ClearDelete ==
    /\ b_pc = "clear"
    /\ \/ /\ cleared' = "delete_failed"
          /\ b_pc' = IF file_paths = <<>> THEN "add" ELSE "files"
          /\ UNCHANGED collection
       \/ /\ collection.exists
          /\ collection' = [exists |-> FALSE, entries |-> {}]
          /\ b_pc' = "create"
          /\ UNCHANGED cleared
    /\ ret' = NoReturn
    /\ UNCHANGED <<chunkVars, markup, sideVars, disk, config, file_paths, clear_existing, idx,
                   all_chunks, processed_files, prior, builds>>

\* clear_collection: self.collection = self.client.create_collection(..),
\* which may raise.
ClearCreate ==
    /\ b_pc = "create"
    /\ \/ /\ collection' = [exists |-> TRUE, entries |-> {}]
          /\ cleared' = "ok"
       \/ /\ cleared' = "create_failed"
          /\ UNCHANGED collection
    /\ b_pc' = IF file_paths = <<>> THEN "add" ELSE "files"
    /\ ret' = NoReturn
    /\ UNCHANGED <<chunkVars, markup, sideVars, disk, config, file_paths, clear_existing, idx,
                   all_chunks, processed_files, prior, builds>>

\* VectorStore.search(query, top_k) called by another thread, wherever the
\* build is; seen is the collection its query ran on.  embed_text and
\* collection.query write nothing.
Search ==
    /\ \E top_k \in 1..MaxTopK :
          \E o \in SearchOutcomes(collection, top_k) :
             ret' = [op |-> "search", top_k |-> top_k, ok |-> o.ok,
                     results |-> IF o.ok THEN o.results ELSE <<>>,
                     seen |-> collection]
    /\ UNCHANGED <<chunkVars, markup, sideVars, storeVars, buildVars, builds>>

ConcNext ==
    \/ ConcBuildCall \/ ClearDelete \/ ClearCreate \/ BuildFile \/ BuildAdd \/ Restart
    \/ Search

ConcSpec == Init /\ [][ConcNext]_vars

\* ------------------------------------------------ files that hold no text
DocW == Path("up", "w.txt", ".txt")
DocH == Path("up", "h.html", ".html")
DocS == Path("up", "s.htm", ".htm")
DocT == Path("up", "t.md", ".md")

\* w.txt: whitespace only; h.html: two inputs and no text; s.htm: a
\* paragraph of whitespace, a script and a button without a label; t.md:
\* one letter.
BlankDisk ==
    (DocW :> TextFile(<<Space, Newline>>))
    @@ (DocH :> File(TRUE, <<>>, FALSE, <<>>,
                     <<Plain("input", 0),
                       Node("input", 0, "q", "", <<>>, "", "", "", <<>>)>>,
                     <<>>))
    @@ (DocS :> File(TRUE, <<>>, FALSE, <<>>,
                     <<Node("p", 0, "", "", <<>>, "", "", "", <<Space>>),
                       Node("script", 0, "", "", <<>>, "", "", "", <<Letter>>),
                       Plain("button", 0)>>,
                     <<>>))
    @@ (DocT :> TextFile(<<Letter>>))

BlankInit ==
    /\ disk = BlankDisk
    /\ config = SmallConfig
    /\ collection = [exists |-> TRUE, entries |-> {}]
    /\ BuildIdle
    /\ SideOff
    /\ ChunkOff
    /\ markup = <<>>
    /\ ret = NoReturn

\* build_knowledge_base is called with paths of these files.
BlankBuildCall ==
    BuildCallOf(UNION {[1..n -> DOMAIN BlankDisk] : n \in 0..MaxFiles})

BlankNext == BlankBuildCall \/ BuildClear \/ BuildFile \/ BuildAdd \/ Restart

BlankSpec == BlankInit /\ [][BlankNext]_vars

\* ----------------------------------------------- the end-to-end scenario
\* Config.CHUNK_SIZE and Config.CHUNK_OVERLAP as the program ships them.
CHUNK_SIZE == 750
CHUNK_OVERLAP == 100

DefaultConfig == [CHUNK_SIZE |-> CHUNK_SIZE, CHUNK_OVERLAP |-> CHUNK_OVERLAP]

\* The number of characters of the scenario's markdown file.
DocLen == 2000

DocM == Path("up", "m.md", ".md")

\* Where a mark can stand in the scenario's text, as 0-based positions.
Sites == {400, 700, 1000, 1300}

\* The text of DocLen characters with the marks m: all letters, but for a
\* space at the site of a "space" mark and a full stop and a space at the
\* site of a "stop" mark.
MarkedText(m) ==
    [i \in 1..DocLen |->
        IF (i - 1) \in DOMAIN m THEN (IF m[i - 1] = "stop" THEN Dot ELSE Space)
        ELSE IF (i - 2) \in DOMAIN m /\ m[i - 2] = "stop" THEN Space
        ELSE Letter]

E2ETexts ==
    UNION {{MarkedText(m) : m \in [P -> {"space", "stop"}]} :
             P \in {Q \in SUBSET Sites : Cardinality(Q) <= MaxMarks}}

E2EInit ==
    /\ \E t \in E2ETexts : disk = (DocM :> TextFile(t))
    /\ config = DefaultConfig
    /\ collection = [exists |-> TRUE, entries |-> {}]
    /\ BuildIdle
    /\ SideOff
    /\ ChunkOff
    /\ markup = <<>>
    /\ ret = NoReturn

\* build_knowledge_base is called with the one file.
E2EBuildCall == BuildCallOf({<<DocM>>})

E2ENext == E2EBuildCall \/ BuildClear \/ BuildFile \/ BuildAdd

E2ESpec == E2EInit /\ [][E2ENext]_vars

\* ------------------------------------------------------ validate_grounding
\* The characters of generated texts and of source names: a letter in both
\* cases, and one more letter.
GroundChars == {"a", "A", "b"}

\* str.lower()
lower(s) == [i \in 1..Len(s) |-> IF s[i] = "A" THEN "a" ELSE s[i]]

\* sub in s
Contains(sub, s) ==
    \E p \in 0..(Len(s) - Len(sub)) : SubSeq(s, p + 1, p + Len(sub)) = sub

\* RAGPipeline.validate_grounding
validate_grounding(generated_text, context_results) ==
    IF context_results = <<>> THEN FALSE
    ELSE LET sources == [k \in 1..Len(context_results) |->
                           Get(context_results[k].metadata, "source", <<>>)]
         IN \E k \in 1..Len(sources) : Contains(lower(sources[k]), lower(generated_text))

StringsUpTo(n) == UNION {[1..k -> GroundChars] : k \in 0..n}

\* The results validate_grounding is given: with a source of one or two
\* characters, or without a source.
GroundResults ==
    {[metadata |-> [type |-> "text"]]}
    \cup {[metadata |-> [type |-> "text", source |-> src]] :
            src \in StringsUpTo(2) \ {<<>>}}

GroundInit ==
    /\ \E generated_text \in StringsUpTo(MaxGenLen),
          context_results \in UNION {[1..n -> GroundResults] : n \in 0..MaxTopK} :
          call = [fn |-> "validate_grounding", generated_text |-> generated_text,
                  context_results |-> context_results]
    /\ llm = LlmOff
    /\ services = <<>>
    /\ uploaded_documents = <<>>
    /\ uploaded_html = <<>>
    /\ requests = 0
    /\ markup = <<>>
    /\ ChunkOff
    /\ StoreOff
    /\ BuildIdle
    /\ ret = NoReturn

\* validate_grounding(generated_text, context_results) is run.
ValidateGrounding ==
    /\ call.fn = "validate_grounding"
    /\ ret.op = "none"
    /\ ret' = [op |-> "validate_grounding",
               value |-> validate_grounding(call.generated_text, call.context_results)]
    /\ UNCHANGED <<chunkVars, markup, sideVars, storeVars, buildVars, builds>>

GroundNext == ValidateGrounding

GroundSpec == GroundInit /\ [][GroundNext]_vars

\* ------------------------------------------------ add_documents on its own
\* The texts of a batch, as given to embed_batch.
BatchTexts(batch) == [k \in 1..Len(batch) |-> batch[k].text]

\* The ids of a batch, as given to the collection.
BatchIds(batch) == [k \in 1..Len(batch) |-> ChunkId(batch[k], k - 1)]

\* add_documents, were an empty list not returned on.
add_documents_unguarded(coll, batch) ==
    LET embed == [to |-> "embed_batch", texts |-> BatchTexts(batch)]
        add == [to |-> "collection.add", ids |-> BatchIds(batch)]
    IN {[raised |-> TRUE, coll |-> coll, services |-> <<embed>>]}
       \cup {IF o.ok
              THEN [raised |-> FALSE, value |-> Len(batch), coll |-> o.coll,
                    services |-> <<embed, add>>]
              ELSE [raised |-> TRUE, coll |-> o.coll, services |-> <<embed, add>>] :
             o \in AddOutcomes(coll, batch)}

\* VectorStore.add_documents: what a call can come to, with the calls it
\* makes of the embedding model and of the collection.  An empty list is
\* answered 0 at once; else embed_batch is called on all the texts and may
\* raise, then collection.add is called and may raise.
add_documents(coll, batch) ==
    IF batch = <<>>
    THEN {[raised |-> FALSE, value |-> 0, coll |-> coll, services |-> <<>>]}
    ELSE add_documents_unguarded(coll, batch)

\* The chunks a build gathers from a list of files of the small disk.
SmallBatch(paths) ==
    Concat([k \in 1..Len(paths) |->
              LET parsed == parse_file(paths[k], SmallDisk[paths[k]])
              IN IF parsed.ok
                 THEN FileChunks(paths[k], parsed, SmallConfig.CHUNK_SIZE,
                                 SmallConfig.CHUNK_OVERLAP)
                 ELSE <<>>])

\* The batches add_documents is given.
AddBatches(most) == {SmallBatch(paths) : paths \in UNION {[1..n -> DOMAIN SmallDisk] : n \in 0..most}}

\* add_documents(chunks) is called on a collection that is empty, or holds
\* the entries of an earlier batch, or was deleted and not created again.
AddInit ==
    /\ \E batch \in AddBatches(MaxFiles) :
          call = [fn |-> "add_documents", chunks |-> batch]
    /\ \E earlier \in AddBatches(MaxFiles), exists \in BOOLEAN :
          collection = [exists |-> exists,
                        entries |-> IF exists THEN BatchEntries(earlier) ELSE {}]
    /\ prior = collection
    /\ disk = SmallDisk
    /\ config = SmallConfig
    /\ llm = LlmOff
    /\ services = <<>>
    /\ uploaded_documents = <<>>
    /\ uploaded_html = <<>>
    /\ requests = 0
    /\ b_pc = "idle"
    /\ file_paths = <<>>
    /\ clear_existing = FALSE
    /\ idx = 1
    /\ all_chunks = <<>>
    /\ processed_files = <<>>
    /\ cleared = "none"
    /\ builds = 0
    /\ ChunkOff
    /\ markup = <<>>
    /\ ret = NoReturn

\* The call runs.
AddDocuments ==
    /\ call.fn = "add_documents"
    /\ ret.op = "none"
    /\ \E o \in add_documents(collection, call.chunks) :
          /\ collection' = o.coll
          /\ services' = o.services
          /\ ret' = IF o.raised THEN [op |-> "add_documents", raised |-> TRUE]
                    ELSE [op |-> "add_documents", raised |-> FALSE, value |-> o.value]
    /\ UNCHANGED <<chunkVars, markup, call, llm, uploaded_documents, uploaded_html, requests,
                   disk, config, buildVars, builds>>

AddNext == AddDocuments

AddSpec == AddInit /\ [][AddNext]_vars

\* ---------------------------------------- _extract_html_selectors on its own
\* A page with a radio group: two inputs of one name, and an input with an id.
RadioPage ==
    <<Node("input", 0, "", "pay", <<>>, "radio", "", "card", <<>>),
      Node("input", 0, "", "pay", <<>>, "radio", "", "cash", <<>>),
      Node("input", 0, "q", "", <<>>, "text", "", "", <<>>)>>

\* The results a search gives for the chunks of a file: the selector chunks
\* of the page under that file's name, and a text chunk.
ResultsOf(filename) ==
    LET selector_chunks == chunk_selectors(extract_selectors(RadioPage), filename)
        text_chunks == chunk_document(filename, "html", <<Letter>>, CHUNK_SIZE, CHUNK_OVERLAP)
        found == text_chunks \o selector_chunks
    IN {[id |-> ChunkId(found[k], k - 1), text |-> found[k].text,
         metadata |-> found[k].metadata, similarity |-> 100] : k \in 1..Len(found)}

\* The result lists _extract_html_selectors is given.
ResultLists(most) ==
    UNION {[1..n -> ResultsOf("f.html") \cup ResultsOf("g.html")] : n \in 0..most}

ReconInit ==
    /\ \E results \in ResultLists(MaxTopK) :
          call = [fn |-> "_extract_html_selectors", results |-> results]
    /\ llm = LlmOff
    /\ services = <<>>
    /\ uploaded_documents = <<>>
    /\ uploaded_html = <<>>
    /\ requests = 0
    /\ markup = <<>>
    /\ ChunkOff
    /\ StoreOff
    /\ BuildIdle
    /\ ret = NoReturn

\* _extract_html_selectors(results) is run.
ExtractHtmlSelectors ==
    /\ call.fn = "_extract_html_selectors"
    /\ ret.op = "none"
    /\ ret' = [op |-> "_extract_html_selectors",
               selectors |-> extract_html_selectors(call.results)]
    /\ UNCHANGED <<chunkVars, markup, sideVars, storeVars, buildVars, builds>>

ReconNext == ExtractHtmlSelectors

ReconSpec == ReconInit /\ [][ReconNext]_vars

\* ------------------------------------------------------- the upload session
\* Config.MAX_DOCUMENTS and Config.ALLOWED_EXTENSIONS.
MAX_DOCUMENTS == 5

DOCUMENT_EXTENSIONS == {".md", ".txt", ".pdf", ".json"}

HTML_EXTENSIONS == {".html", ".htm"}

\* The most requests of a session.
MaxSession == 3

\* The filenames the short requests carry.
UploadNames == {"a.md", "../a.md", "x.exe"}

HtmlNames == {"p.html", "x.exe"}

\* Path(filename).suffix on the filenames that occur.
Suffix(filename) ==
    CASE filename \in {"a.md", "../a.md", "c.md", "e.md"} -> ".md"
      [] filename \in {"b.txt", "d.txt", "f.txt"} -> ".txt"
      [] filename = "p.html" -> ".html"
      [] OTHER -> ".exe"

get_file_extension(filename) == Lower(Suffix(filename))

validate_file_extension(filename, allowed_extensions) ==
    get_file_extension(filename) \in allowed_extensions

\* os.path.basename and the removal of the characters outside [\w\s\-\.],
\* on the filenames that occur.
sanitize_filename(filename) ==
    CASE filename = "../a.md" -> "a.md"
      [] OTHER -> filename

\* Path(Config.UPLOAD_DIRECTORY) / safe_filename
UploadPath(filename) ==
    Path("uploads", sanitize_filename(filename), Suffix(sanitize_filename(filename)))

\* What the client sends under a filename.
Sent(filename) ==
    CASE filename \in {"a.md", "../a.md"} -> TextFile(<<Letter>>)
      [] filename = "p.html" -> File(TRUE, <<>>, FALSE, <<>>,
                                     <<Node("input", 0, "q", "", <<>>, "", "", "", <<>>)>>,
                                     <<>>)
      [] OTHER -> TextFile(<<Letter, Dot>>)

\* Two requests of three files each, with six names between them.
FirstThree == <<"a.md", "b.txt", "c.md">>

NextThree == <<"d.txt", "e.md", "f.txt">>

\* The requests to /upload_docs: every list of one or two of the filenames
\* above, the two requests of three files, and one request with the six.
UploadRequests ==
    UNION {[1..n -> UploadNames] : n \in 1..2} \cup {FirstThree, NextThree, FirstThree \o NextThree}

\* "for file in files" of upload_documents from the k-th file on, with the
\* list and the disk as they are so far; fail is the place of the file whose
\* saving raises, 0 when none does.
RECURSIVE SaveFiles(_, _, _, _, _)
SaveFiles(files, k, fail, docs, d) ==
    IF k > Len(files) THEN [status |-> 200, docs |-> docs, disk |-> d]
    ELSE IF ~validate_file_extension(files[k], DOCUMENT_EXTENSIONS)
         THEN [status |-> 400, docs |-> docs, disk |-> d]
    ELSE IF k = fail THEN [status |-> 500, docs |-> docs, disk |-> d]
    ELSE SaveFiles(files, k + 1, fail, Append(docs, UploadPath(files[k])),
                   (UploadPath(files[k]) :> Sent(files[k])) @@ d)

\* upload_documents
upload_documents(files, fail, docs, d) ==
    IF Len(files) > MAX_DOCUMENTS THEN [status |-> 400, docs |-> docs, disk |-> d]
    ELSE SaveFiles(files, 1, fail, docs, d)

UploadInit ==
    /\ disk = <<>>
    /\ config = SmallConfig
    /\ collection = [exists |-> TRUE, entries |-> {}]
    /\ BuildIdle
    /\ SideOff
    /\ ChunkOff
    /\ markup = <<>>
    /\ ret = NoReturn

\* POST /upload_docs
UploadDocuments ==
    /\ b_pc = "idle"
    /\ requests < MaxSession
    /\ requests' = requests + 1
    /\ \E files \in UploadRequests :
          \E fail \in 0..Len(files) :
             LET out == upload_documents(files, fail, uploaded_documents, disk)
             IN /\ uploaded_documents' = out.docs
                /\ disk' = out.disk
                /\ ret' = [op |-> "upload_docs", status |-> out.status,
                           before |-> uploaded_documents]
    /\ UNCHANGED <<chunkVars, markup, call, llm, services, uploaded_html, config, collection,
                   buildVars, builds>>

\* POST /upload_html
UploadHtml ==
    /\ b_pc = "idle"
    /\ requests < MaxSession
    /\ requests' = requests + 1
    /\ \E filename \in HtmlNames, saved \in BOOLEAN :
          IF ~validate_file_extension(filename, HTML_EXTENSIONS)
          THEN /\ ret' = [op |-> "upload_html", status |-> 400]
               /\ UNCHANGED <<uploaded_html, disk>>
          ELSE IF ~saved
          THEN /\ ret' = [op |-> "upload_html", status |-> 500]
               /\ UNCHANGED <<uploaded_html, disk>>
          ELSE /\ uploaded_html' = <<UploadPath(filename)>>
               /\ disk' = (UploadPath(filename) :> Sent(filename)) @@ disk
               /\ ret' = [op |-> "upload_html", status |-> 200]
    /\ UNCHANGED <<chunkVars, markup, call, llm, services, uploaded_documents, config,
                   collection, buildVars, builds>>

\* POST /build_kb with nothing uploaded.
BuildKbNothing ==
    /\ b_pc = "idle"
    /\ uploaded_documents = <<>>
    /\ uploaded_html = <<>>
    /\ ret' = [op |-> "build_kb", status |-> 400]
    /\ UNCHANGED <<chunkVars, markup, sideVars, storeVars, buildVars, builds>>

\* POST /build_kb: all_files, and the call of the pipeline with it; the
\* steps of the pipeline follow.
BuildKb ==
    /\ ~(uploaded_documents = <<>> /\ uploaded_html = <<>>)
    /\ BuildCallOf({uploaded_documents \o uploaded_html})

\* DELETE /clear_uploads: the lists are emptied, then the files deleted one
\* by one; every file is kept when the first unlink raises.
ClearUploads ==
    /\ b_pc = "idle"
    /\ requests < MaxSession
    /\ requests' = requests + 1
    /\ uploaded_documents' = <<>>
    /\ uploaded_html' = <<>>
    /\ \E kept \in {{}, DOMAIN disk} :
          /\ disk' = [p \in kept |-> disk[p]]
          /\ ret' = [op |-> "clear_uploads", status |-> IF kept = {} THEN 200 ELSE 500]
    /\ UNCHANGED <<chunkVars, markup, call, llm, services, config, collection, buildVars, builds>>

UploadNext ==
    \/ UploadDocuments
    \/ UploadHtml
    \/ BuildKbNothing
    \/ BuildKb
    \/ BuildClear
    \/ BuildFile
    \/ BuildAdd
    \/ ClearUploads

UploadSpec == UploadInit /\ [][UploadNext]_vars

\* ---------------------------------------------------- _call_llm_with_retry
\* The default of the parameter max_retries.
DEFAULT_MAX_RETRIES == 3

\* The texts a response carries: none, blank, or with a letter in it.
ResponseTexts == {<<>>, <<Space>>, <<Space, Letter>>}

\* What model.generate_content can come to: it raises, or gives a response
\* with the joined text of the parts of its first candidate (empty without
\* candidates) and a text accessor that raises or gives a text.
Responses ==
    {[raises |-> TRUE]}
    \cup {[raises |-> FALSE, parts |-> p, accessor_raises |-> TRUE] : p \in ResponseTexts}
    \cup {[raises |-> FALSE, parts |-> p, accessor_raises |-> FALSE, text |-> t] :
            p \in ResponseTexts, t \in ResponseTexts}

\* The text an attempt returns: the stripped text of the parts if it is not
\* blank, else the stripped response.text if it can be read and is not
\* blank; empty when the attempt raises instead.
ExtractText(response) ==
    IF response.raises THEN <<>>
    ELSE IF Strip(response.parts) # <<>> THEN Strip(response.parts)
    ELSE IF ~response.accessor_raises /\ Strip(response.text) # <<>> THEN Strip(response.text)
    ELSE <<>>

\* A loop that sleeps and goes on after any failed attempt.
MayRetryAlways(attempt, max_retries) == TRUE

\* if attempt < max_retries - 1: a failed attempt is followed by another.
MayRetry(attempt, max_retries) == attempt < max_retries - 1

\* time.sleep(2 ** attempt)
Backoff(attempt) == 2 ^ attempt

\* _call_llm_with_retry(prompt) or _call_llm_with_retry(prompt, max_retries)
\* is called.
RetryInit ==
    /\ \E passed \in BOOLEAN, max_retries \in 0..MaxRetries :
          call = [fn |-> "_call_llm_with_retry", passed |-> passed,
                  max_retries |-> IF passed THEN max_retries ELSE DEFAULT_MAX_RETRIES]
    /\ llm = [pc |-> "loop", attempt |-> 0, responses |-> <<>>, sleeps |-> <<>>]
    /\ services = <<>>
    /\ uploaded_documents = <<>>
    /\ uploaded_html = <<>>
    /\ requests = 0
    /\ markup = <<>>
    /\ ChunkOff
    /\ StoreOff
    /\ BuildIdle
    /\ ret = NoReturn

\* One turn of the loop: the attempt returns its text, or fails and is
\* followed by the backoff and the next turn, or fails and raises.
Attempt ==
    /\ llm.pc = "loop"
    /\ llm.attempt < call.max_retries
    /\ \E response \in Responses :
          LET text_out == ExtractText(response)
              made == [llm EXCEPT !.responses = Append(@, response)]
          IN IF text_out # <<>>
             THEN /\ llm' = [made EXCEPT !.pc = "returned"]
                  /\ ret' = [op |-> "_call_llm_with_retry", raised |-> FALSE,
                             value |-> [none |-> FALSE, text |-> text_out]]
             ELSE IF MayRetry(llm.attempt, call.max_retries)
             THEN /\ llm' = [made EXCEPT !.sleeps = Append(@, Backoff(llm.attempt)),
                                         !.attempt = @ + 1]
                  /\ ret' = ret
             ELSE /\ llm' = [made EXCEPT !.pc = "raised"]
                  /\ ret' = [op |-> "_call_llm_with_retry", raised |-> TRUE]
    /\ UNCHANGED <<chunkVars, markup, call, services, uploaded_documents, uploaded_html,
                   requests, storeVars, buildVars, builds>>

\* The loop has no turn left: the function ends without a return statement.
FallThrough ==
    /\ llm.pc = "loop"
    /\ llm.attempt >= call.max_retries
    /\ llm' = [llm EXCEPT !.pc = "returned"]
    /\ ret' = [op |-> "_call_llm_with_retry", raised |-> FALSE, value |-> [none |-> TRUE]]
    /\ UNCHANGED <<chunkVars, markup, call, services, uploaded_documents, uploaded_html,
                   requests, storeVars, buildVars, builds>>

RetryNext == Attempt \/ FallThrough

RetrySpec == RetryInit /\ [][RetryNext]_vars

\* ------------------------------------------------------------------ claims
\* The text is what clean_text returns for some non-blank input: not empty,
\* no whitespace at either end, no two whitespace characters in a row.
Normalised(s) == s # <<>> /\ clean_text(s) = s

\* C1: for every text and every (size, overlap) with 0 <= overlap < size,
\* chunk_text terminates: the loop reaches start >= len(text) and returns.
C1_Terminates == (overlap < chunk_size) ~> (pc = "done")

\* C4: for overlap < size every chunk chunk_text returns is non-empty after
\* trimming.  Stated on the inputs where the claim is least in doubt: a
\* non-blank text in the form clean_text produces and a chunk_size of at
\* least 2 (on blank text, or with windows of one character, a window can
\* hold nothing but whitespace).
C4_ChunksNonEmpty ==
    (pc = "done" /\ overlap < chunk_size /\ chunk_size >= 2 /\ Normalised(text))
        => \A k \in 1..Len(chunks) : chunks[k] # <<>>

\* Every character position lies in one of the slices text[start:end] cut
\* so far.
AllCovered ==
    \A p \in 0..(Len(text) - 1) :
        \E k \in 1..Len(cuts) :
            SliceIndex(cuts[k][1], Len(text)) <= p /\ p < SliceIndex(cuts[k][2], Len(text))

\* No window starts beyond the end of the window before it.
NoGap == \A k \in 1..(Len(cuts) - 1) : cuts[k + 1][1] <= cuts[k][2]

\* C5: for overlap < size the windows chunk_text cuts come to cover every
\* character position of the text, and no window starts beyond the end of
\* the one before it.
C5_Coverage == [](overlap < chunk_size => NoGap) /\ ((overlap < chunk_size) ~> AllCovered)

\* C6: a text with len(text) <= size comes back as the one-element list
\* [text], unchanged and untrimmed, whatever the overlap.
C6_ShortTextWhole ==
    (pc = "done" /\ Len(text) <= chunk_size) => chunks = <<text>>

\* A text that begins with a space and fills the chunk size exactly came
\* back whole, with an overlap as large as the chunk size.
C6_Witness ==
    /\ pc = "done"
    /\ Len(text) = chunk_size
    /\ overlap = chunk_size
    /\ Len(text) >= 2
    /\ text[1] = Space
    /\ chunks = <<text>>

\* The place of node i itself among its same-tag siblings, from 1.
PlaceAmongSiblings(nodes, i) ==
    LET sibs == Siblings(nodes, i)
    IN Min({k \in 1..Len(sibs) : sibs[k] = i})

\* Node i has neither id nor name, and has siblings of its own tag.
Positional(nodes, i) ==
    nodes[i].id = "" /\ nodes[i].name = "" /\ Len(Siblings(nodes, i)) > 1

\* The last step of the path of a positional node: tag[k], k its place.
ExpectedLastStep(nodes, i) ==
    nodes[i].tag \o "[" \o ToString(PlaceAmongSiblings(nodes, i)) \o "]"

\* The path of a positional node, whose steps above it are given.
ExpectedXPath(nodes, i) ==
    "//" \o Join(Append(PathParts(nodes, nodes[i].parent), ExpectedLastStep(nodes, i)), "/")

\* C3: an element without id and name that has same-tag siblings gets a path
\* whose last step is tag[k], k its 1-based place among those siblings, so
\* two distinct same-tag siblings never get the same path.
C3_SiblingIndex ==
    ret.op = "extract" =>
        LET order == ExtractOrder(markup)
        IN /\ \A k \in 1..Len(order) :
                 Positional(markup, order[k])
                    => ret.selectors[k].xpath = ExpectedXPath(markup, order[k])
           /\ \A k, l \in 1..Len(order) :
                 (/\ k # l
                  /\ Positional(markup, order[k])
                  /\ Positional(markup, order[l])
                  /\ markup[order[k]].tag = markup[order[l]].tag
                  /\ markup[order[k]].parent = markup[order[l]].parent)
                    => ret.selectors[k].xpath # ret.selectors[l].xpath

\* The build that has just returned is the scenario's: the one markdown
\* file, into a collection that was empty or that the build emptied.
ScenarioBuilt ==
    /\ ret.op = "build"
    /\ ret.call.file_paths = <<DocM>>
    /\ (ret.prior.entries = {} \/ ret.cleared = "ok")

\* C2: building from one markdown file of 2000 characters with size 750 and
\* overlap 100 gives exactly 3 text chunks with chunk_index 0, 1, 2 and
\* total_chunks 3 on each, and get_kb_stats then reports total_chunks 3 and
\* unique_sources 1.
C2_ThreeChunks ==
    ScenarioBuilt =>
        /\ ret.num_chunks = 3
        /\ Len(ret.batch) = 3
        /\ \A k \in 1..Len(ret.batch) :
              /\ ret.batch[k].metadata.chunk_index = k - 1
              /\ ret.batch[k].metadata.total_chunks = 3
        /\ get_kb_stats(collection).total_chunks = 3
        /\ get_kb_stats(collection).unique_sources = 1

\* C7: two different elements reconstructed from one result list are never
\* stored under the same key; in particular a generated key
\* {element_type}_{ordinal} is the key of no other element of the list.
C7_KeysUnique ==
    ret.op = "query" =>
        \A i, j \in 1..Len(ret.results) :
            (/\ i < j
             /\ IsSelectorResult(ret.results[i])
             /\ IsSelectorResult(ret.results[j])
             /\ selector_data(ret.results[i].metadata)
                   # selector_data(ret.results[j].metadata))
                => KeyAt(ret.results, i) # KeyAt(ret.results, j)

\* C8: a clear_collection that failed leaves the collection as the build
\* found it: still there, with all its entries.
C8_FailedClearKeepsCollection ==
    cleared \in {"delete_failed", "create_failed"} => collection = prior

\* The paths of a list that parse_file parses without error, in order.
OkPaths(paths) ==
    LET Ok(path) == parse_file(path, disk[path]).ok
    IN SelectSeq(paths, Ok)

Names(paths) == [k \in 1..Len(paths) |-> paths[k].name]

\* The chunks of the files of a list that parse, file after file.
ExpectedBatch(paths) ==
    LET ok == OkPaths(paths)
    IN Concat([k \in 1..Len(ok) |->
                 FileChunks(ok[k], parse_file(ok[k], disk[ok[k]]), config.CHUNK_SIZE,
                            config.CHUNK_OVERLAP)])

\* C9: a file that fails to parse does not end the build: when the loop is
\* over, the chunks gathered are those of every file that parses and
\* processed_files names exactly those files, in the order given; the
\* build returns that list and its length as num_documents.
C9_PerFileIsolation ==
    /\ b_pc = "add" =>
          /\ processed_files = Names(OkPaths(file_paths))
          /\ all_chunks = ExpectedBatch(file_paths)
    /\ ret.op = "build" =>
          /\ ret.processed_files = Names(OkPaths(ret.call.file_paths))
          /\ ret.num_documents = Len(ret.processed_files)
          /\ ret.batch = ExpectedBatch(ret.call.file_paths)

\* A build of two files returned: the first failed to parse, the second was
\* parsed and chunked.
C9_Witness ==
    /\ ret.op = "build"
    /\ Len(ret.call.file_paths) = 2
    /\ ~parse_file(ret.call.file_paths[1], disk[ret.call.file_paths[1]]).ok
    /\ ret.processed_files = <<ret.call.file_paths[2].name>>
    /\ ret.num_chunks > 0

\* C10: after a build with clear_existing whose clear_collection succeeded,
\* the collection holds exactly the entries of this call's batch, which the
\* call's arguments determine, so that the same build run again leaves the
\* same collection; and its count is the num_chunks the build returned.
C10_RebuildExact ==
    (ret.op = "build" /\ ret.cleared = "ok") =>
        /\ collection.exists
        /\ collection.entries = BatchEntries(ret.batch)
        /\ collection.entries = BatchEntries(ExpectedBatch(ret.call.file_paths))
        /\ Count(collection) = ret.num_chunks

\* A clearing build returned chunks into a collection that held entries it
\* no longer holds.
C10_Witness ==
    /\ ret.op = "build"
    /\ ret.cleared = "ok"
    /\ ret.num_chunks > 0
    /\ ret.prior.entries \ collection.entries # {}

\* C11: the ids doc_{i}_{chunk_index} that one add_documents call gives
\* the chunks of its batch are pairwise distinct, i being the place of the
\* chunk in the batch, also when the batch holds text chunks (which carry a
\* chunk_index) and selector chunks (which carry none).
C11_IdsDistinct ==
    b_pc = "add" =>
        \A k, l \in 1..Len(all_chunks) :
            k # l => ChunkId(all_chunks[k], k - 1) # ChunkId(all_chunks[l], l - 1)

\* add_documents is about to be given a batch in which a text chunk carries
\* as its chunk_index the place of a selector chunk, which is what that
\* selector chunk's id ends with.
C11_Witness ==
    /\ b_pc = "add"
    /\ \E k, l \in 1..Len(all_chunks) :
          /\ "chunk_index" \notin DOMAIN all_chunks[k].metadata
          /\ "chunk_index" \in DOMAIN all_chunks[l].metadata
          /\ all_chunks[l].metadata.chunk_index = k - 1

\* C12: a query on a collection without entries returns as context exactly
\* the sentence "No relevant context found.", with no sources, no results
\* and no structural elements.
C12_EmptyIndexQuery ==
    (ret.op = "query" /\ Count(collection) = 0) =>
        /\ ret.context = <<"No relevant context found.">>
        /\ ret.sources = {}
        /\ ret.results = <<>>
        /\ DOMAIN ret.html_selectors = {}

\* A query returned from a collection that was without entries after a build.
C12_Witness ==
    /\ ret.op = "query"
    /\ Count(collection) = 0
    /\ builds > 0
    /\ ret.results = <<>>

\* C13: validate_grounding is true if and only if the source of at least one
\* result is, case set aside, a substring of the generated text; so it is
\* false for no results, and a result without a source does not make it
\* true.
C13_GroundedIffSourceNamed ==
    ret.op = "validate_grounding" =>
        (ret.value <=>
            \E k \in 1..Len(call.context_results) :
                /\ "source" \in DOMAIN call.context_results[k].metadata
                /\ Contains(lower(call.context_results[k].metadata.source),
                            lower(call.generated_text)))

\* The fields the flattened metadata of a selector chunk carries.
FlatFields ==
    {"element_type", "element_id", "element_name", "css_selector", "xpath",
     "placeholder", "input_type"}

\* C14: an element flattened into the metadata of a selector chunk and
\* reconstructed from that metadata is a record of the seven flattened
\* fields, each equal to the field of the element.
C14_RoundTrip ==
    ret.op = "flatten" =>
        /\ Len(ret.rebuilt) = Len(ret.selectors)
        /\ \A k \in 1..Len(ret.selectors) :
              /\ DOMAIN ret.rebuilt[k] = FlatFields
              /\ \A field \in FlatFields : ret.rebuilt[k][field] = ret.selectors[k][field]

\* An element with a placeholder and a class list, and one with an input
\* type, went through the round trip.
C14_Witness ==
    /\ ret.op = "flatten"
    /\ \E k, l \in 1..Len(ret.selectors) :
          /\ ret.selectors[k].placeholder # ""
          /\ ret.selectors[k].element_class # <<>>
          /\ ret.rebuilt[k].placeholder = ret.selectors[k].placeholder
          /\ ret.selectors[l].input_type # ""

\* C15: the css_selector of an element is made by the first rule that
\* applies, in the order id, name, type, class list, bare kind: #id for an
\* element with an id whatever else it has, then kind[name='..'], then
\* kind[type='..'], then the kind with the classes dot-joined in their
\* order, then the kind alone.
C15_CssPrecedence ==
    ret.op = "extract" =>
        LET order == ExtractOrder(markup)
        IN \A k \in 1..Len(order) :
              LET n == markup[order[k]]
                  css == ret.selectors[k].css_selector
              IN /\ n.id # "" => css = "#" \o n.id
                 /\ (n.id = "" /\ n.name # "") => css = n.tag \o "[name='" \o n.name \o "']"
                 /\ (n.id = "" /\ n.name = "" /\ n.type # "")
                       => css = n.tag \o "[type='" \o n.type \o "']"
                 /\ (n.id = "" /\ n.name = "" /\ n.type = "" /\ Len(n.cls) = 2)
                       => css = n.tag \o "." \o n.cls[1] \o "." \o n.cls[2]
                 /\ (n.id = "" /\ n.name = "" /\ n.type = "" /\ Len(n.cls) = 1)
                       => css = n.tag \o "." \o n.cls[1]
                 /\ (n.id = "" /\ n.name = "" /\ n.type = "" /\ Len(n.cls) = 0)
                       => css = n.tag

\* Extracted together: an element with id and name, one with name and type,
\* and one with type and class.
C15_Witness ==
    /\ ret.op = "extract"
    /\ \E k, l, m \in 1..Len(ret.selectors) :
          /\ ret.selectors[k].element_id = "x" /\ ret.selectors[k].element_name = "y"
          /\ ret.selectors[k].css_selector = "#x"
          /\ ret.selectors[l].element_id = "" /\ ret.selectors[l].element_name # ""
          /\ ret.selectors[l].input_type # ""
          /\ ret.selectors[m].element_name = "" /\ ret.selectors[m].input_type # ""
          /\ ret.selectors[m].element_class # <<>>

\* The place of a kind among the kinds the extractor looks for.
KindRank(tag) ==
    CASE tag = "input" -> 1
      [] tag = "button" -> 2
      [] tag = "select" -> 3
      [] tag = "textarea" -> 4
      [] tag = "a" -> 5
      [] tag = "form" -> 6
      [] OTHER -> 0

\* The nodes of the markup that are of a kind the extractor looks for.
TargetNodes == {j \in 1..Len(markup) : KindRank(markup[j].tag) > 0}

\* C16: extraction is a function of the markup, run again it gives the same
\* sequence; every element of a kind looked for is emitted once, the kinds
\* in the order input, button, select, textarea, a, form, and the elements
\* of one kind in document order.
C16_KindMajorOrder ==
    ret.op = "extract" =>
        LET order == ExtractOrder(markup)
        IN /\ ret.selectors = extract_selectors(markup)
           /\ Len(ret.selectors) = Cardinality(TargetNodes)
           /\ {order[k] : k \in 1..Len(order)} = TargetNodes
           /\ \A k \in 1..Len(order) :
                 ret.selectors[k].element_type = markup[order[k]].tag
           /\ \A k, l \in 1..Len(order) :
                 k < l =>
                    \/ KindRank(markup[order[k]].tag) < KindRank(markup[order[l]].tag)
                    \/ /\ markup[order[k]].tag = markup[order[l]].tag
                       /\ order[k] < order[l]

\* A link stood before a button and the button before an input in the
\* markup, and they were emitted input, button, link.
C16_Witness ==
    /\ ret.op = "extract"
    /\ Len(markup) = 3
    /\ markup[1].tag = "a" /\ markup[2].tag = "button" /\ markup[3].tag = "input"
    /\ ret.selectors[1].element_type = "input"
    /\ ret.selectors[2].element_type = "button"
    /\ ret.selectors[3].element_type = "a"

\* The fields of the text line of element i of the markup, empty where the
\* element has nothing to show, in the order of the line.
LineFields(i) ==
    << <<"Element Type: " \o markup[i].tag>>,
       IF markup[i].id # "" THEN <<"ID: " \o markup[i].id>> ELSE <<>>,
       IF markup[i].name # "" THEN <<"Name: " \o markup[i].name>> ELSE <<>>,
       IF markup[i].placeholder # "" THEN <<"Placeholder: " \o markup[i].placeholder>> ELSE <<>>,
       IF ElementText(markup, i) # <<>> THEN <<"Text: ">> \o ElementText(markup, i) ELSE <<>> >>

\* The fields that are not empty, joined by " | ".
RECURSIVE PipeJoined(_)
PipeJoined(fields) ==
    IF fields = <<>> THEN <<>>
    ELSE LET rest == PipeJoined(Tail(fields))
         IN IF Head(fields) = <<>> THEN rest
            ELSE IF rest = <<>> THEN Head(fields)
            ELSE Head(fields) \o <<" | ">> \o rest

\* C17: the text of a selector chunk is the fields Element Type, ID, Name,
\* Placeholder, Text joined by " | " in that order: Element Type always and
\* first, each other field exactly when the element has it.
C17_FieldOrder ==
    ret.op = "flatten" =>
        LET order == ExtractOrder(markup)
        IN \A k \in 1..Len(order) : ret.chunks[k].text = PipeJoined(LineFields(order[k]))

\* The chunks were made of an element with id and name and of an element
\* with text only.
C17_Witness ==
    /\ ret.op = "flatten"
    /\ \E k, l \in 1..Len(ret.selectors) :
          /\ ret.selectors[k].element_id # "" /\ ret.selectors[k].element_name # ""
          /\ ret.selectors[l].element_id = "" /\ ret.selectors[l].text_content # <<>>
          /\ ret.chunks[l].text = <<"Element Type: button", " | ", "Text: ", Letter>>

\* C18: when the context retrieved for the test-case generation endpoint is
\* the sentence "No relevant context found." or the empty string, the
\* endpoint answers not found and the generation service is not invoked.
C18_SentinelIsEmpty ==
    (/\ ret.op = "generate_test_cases"
     /\ ret.received
     /\ (ret.context = <<"No relevant context found.">> \/ ret.context = <<>>))
        => (ret.status = 404 /\ ~ret.invoked)

\* The endpoint was called on a collection that a build had left without
\* entries, retrieved the sentence and answered not found.
C18_Witness ==
    /\ ret.op = "generate_test_cases"
    /\ ret.received
    /\ ret.context = <<"No relevant context found.">>
    /\ ret.status = 404
    /\ Count(collection) = 0
    /\ builds > 0

\* An attempt of the call failed: it raised, or gave no text that is not
\* blank.
Failed(k) == ExtractText(llm.responses[k]) = <<>>

\* C19: a call makes at most max_retries attempts, 3 by default; every
\* attempt before the last one made failed and was followed by a backoff
\* of 2^attempt seconds (1, 2, 4, ..), the first attempt giving a text that
\* is not blank returns that text, stripped; no backoff follows attempt
\* max_retries; and once that attempt has failed the call has raised, it
\* neither goes on nor returns without a value.
C19_BoundedRetry ==
    call.fn = "_call_llm_with_retry" =>
        LET n == Len(llm.responses)
            m == call.max_retries
        IN /\ ~call.passed => m = 3
           /\ n <= m
           /\ \A k \in 1..(n - 1) : Failed(k)
           /\ llm.sleeps = [k \in 1..Cardinality({j \in 1..n : Failed(j) /\ j < m}) |-> 2 ^ (k - 1)]
           /\ (llm.pc = "loop" /\ n > 0) => (Failed(n) /\ n < m)
           /\ (n > 0 /\ ~Failed(n))
                 => /\ llm.pc = "returned"
                    /\ ~ret.raised
                    /\ ret.value = [none |-> FALSE, text |-> ExtractText(llm.responses[n])]
           /\ (n > 0 /\ n = m /\ Failed(n)) => (llm.pc = "raised" /\ ret.raised)
           /\ llm.pc = "raised" => (n = m /\ Failed(n))
           /\ (llm.pc = "returned" /\ ret.value.none) => m = 0

\* A call by default failed three times, slept 1 and 2 seconds in between
\* and raised after the third attempt; the second attempt had given a
\* response whose texts were blank.
C19_Witness ==
    /\ call.fn = "_call_llm_with_retry"
    /\ ~call.passed
    /\ llm.pc = "raised"
    /\ Len(llm.responses) = 3
    /\ llm.responses[1].raises
    /\ ~llm.responses[2].raises
    /\ llm.sleeps = <<1, 2>>

\* The chunks of the files of a list that parse: for each file in the order
\* of the list its text chunks, then its selector chunks.
TextThenSelectors(paths) ==
    LET ok == OkPaths(paths)
        TextChunks(path) ==
            LET parsed == parse_file(path, disk[path])
            IN IF parsed.text # <<>>
               THEN chunk_document(path.name, parsed.type, parsed.text, config.CHUNK_SIZE,
                                   config.CHUNK_OVERLAP)
               ELSE <<>>
        SelectorChunks(path) ==
            LET parsed == parse_file(path, disk[path])
            IN IF parsed.type = "html"
               THEN chunk_selectors(parsed.selectors, path.name)
               ELSE <<>>
    IN Concat([k \in 1..(2 * Len(ok)) |->
                 IF k % 2 = 1 THEN TextChunks(ok[(k + 1) \div 2])
                 ELSE SelectorChunks(ok[k \div 2])])

\* C20: a build adds chunks to the collection in one step only, the
\* add_documents call that follows the pass over the last file and ends the
\* build; the batch of that call is, for each file that parsed in the order
\* given, its text chunks followed by its selector chunks, and whatever is
\* new in the collection comes from that batch.
C20_OneAddAfterAllFiles ==
    [][/\ (collection'.entries \ collection.entries # {})
            => /\ b_pc = "add"
               /\ b_pc' = "idle"
               /\ idx = Len(file_paths) + 1
               /\ all_chunks = TextThenSelectors(file_paths)
               /\ collection'.entries \ collection.entries \subseteq BatchEntries(all_chunks)
       /\ (b_pc # "add" /\ b_pc' = "add") => idx' = Len(file_paths') + 1
       /\ b_pc = "add" => b_pc' = "idle"]_vars

\* A build of a text file and a page has returned: the batch held text
\* chunks of both and the selector chunks of the page, and the collection
\* holds its entries.
C20_Witness ==
    /\ ret.op = "build"
    /\ ret.call.file_paths = <<DocA, DocF>>
    /\ ret.num_chunks = Len(ret.batch)
    /\ \E k, l \in 1..Len(ret.batch) :
          /\ k < l
          /\ ret.batch[k].metadata.source = "f.html"
          /\ ret.batch[k].metadata.type = "html"
          /\ ret.batch[l].metadata.type = "html_selector"
    /\ ret.batch[1].metadata.source = "a.MD"
    /\ BatchEntries(ret.batch) \subseteq collection.entries

\* The file at a path parses and its text is empty or blank.
ParsesBlank(path) ==
    LET parsed == parse_file(path, disk[path])
    IN parsed.ok /\ Strip(parsed.text) = <<>>

\* How many members of a sequence satisfy a test.
CountIn(seq, Test(_)) == Cardinality({k \in 1..Len(seq) : Test(seq[k])})

\* C21: a build gathers no chunk with an empty or blank text; a file whose
\* parsed text is empty or blank gives no text chunk, is named in
\* processed_files as often as it was given, and, when it is a page with
\* elements, gives one selector chunk for each element each time.
C21_BlankTextFile ==
    ret.op = "build" =>
        /\ \A k \in 1..Len(ret.batch) : Strip(ret.batch[k].text) # <<>>
        /\ \A j \in 1..Len(ret.call.file_paths) :
              LET path == ret.call.file_paths[j]
                  Same(p) == p = path
                  Named(name) == name = path.name
                  TextOf(chunk) == /\ chunk.metadata.source = path.name
                                   /\ chunk.metadata.type # "html_selector"
                  SelectorOf(chunk) == /\ chunk.metadata.source = path.name
                                       /\ chunk.metadata.type = "html_selector"
              IN ParsesBlank(path) =>
                    /\ CountIn(ret.batch, TextOf) = 0
                    /\ CountIn(ret.processed_files, Named) = CountIn(ret.call.file_paths, Same)
                    /\ CountIn(ret.batch, SelectorOf)
                          = CountIn(ret.call.file_paths, Same) * Len(extract_selectors(disk[path].nodes))

\* A build of the page without text and the file of whitespace returned:
\* both are processed and the batch is the two selector chunks of the page.
C21_Witness ==
    /\ ret.op = "build"
    /\ ret.call.file_paths = <<DocH, DocW>>
    /\ ret.processed_files = <<"h.html", "w.txt">>
    /\ Len(ret.batch) = 2
    /\ ret.batch[2].metadata.type = "html_selector"

\* C22: the text chunks of one document carry the chunk_index values 0, 1,
\* .., n - 1 in the order they are emitted and each carries total_chunks =
\* n, n being the number of chunks chunk_text returned for the document.
C22_ChunkIndexContiguous ==
    ret.op = "chunk_document" =>
        /\ Strip(text) # <<>> => Len(ret.chunks) = Len(chunks)
        /\ \A k \in 1..Len(ret.chunks) :
              /\ ret.chunks[k].metadata.chunk_index = k - 1
              /\ ret.chunks[k].metadata.total_chunks = Len(chunks)
              /\ ret.chunks[k].text = chunks[k]

\* A document was cut into three chunks or more.
C22_Witness ==
    /\ ret.op = "chunk_document"
    /\ Len(ret.chunks) >= 3
    /\ ret.chunks[3].metadata.chunk_index = 2

\* C23: add_documents on an empty list returns 0, calls neither the
\* embedding model nor the collection and leaves the collection as it was;
\* on a list that is not empty it calls embed_batch once, first, with the
\* texts of all the chunks, and a call that returns returns the number of
\* chunks it was given.
C23_EmptyBatchNoOp ==
    ret.op = "add_documents" =>
        /\ call.chunks = <<>>
              => /\ ~ret.raised /\ ret.value = 0
                 /\ services = <<>>
                 /\ collection = prior
        /\ call.chunks # <<>>
              => /\ services # <<>>
                 /\ services[1] = [to |-> "embed_batch", texts |-> BatchTexts(call.chunks)]
                 /\ \A k \in 2..Len(services) : services[k].to # "embed_batch"
                 /\ ~ret.raised => ret.value = Len(call.chunks)

\* An empty list was given while the collection held entries, and returned on.
C23_Witness ==
    /\ ret.op = "add_documents"
    /\ call.chunks = <<>>
    /\ ret.value = 0
    /\ collection.entries # {}

\* C24: a search leaves the collection as it found it and returns what a
\* search alone returns on the collection it ran on; and a search made while
\* a build is under way ran on the collection as it was when the build was
\* called, or as clear_collection left it (the add being the last step of a
\* build, no search of this kind comes after it).
C24_SearchReadOnly ==
    ret.op = "search" =>
        /\ collection = ret.seen
        /\ ret.ok =>
              ret.results \in SearchResults(ret.seen.entries,
                                            IF ret.top_k < Count(ret.seen) THEN ret.top_k
                                            ELSE Count(ret.seen))
        /\ b_pc # "idle" => (ret.seen = prior \/ cleared # "none")

\* C25: the elements reconstructed from a result list are as many as the
\* results of the list whose metadata type is html_selector.
C25_NoneLost ==
    ret.op = "_extract_html_selectors" =>
        Cardinality(DOMAIN ret.selectors)
            = Cardinality({k \in 1..Len(call.results) : IsSelectorResult(call.results[k])})

\* C26: in chunk_text with 0 <= overlap < chunk_size, each pass of the loop
\* leaves start greater than it was and not negative, so that no chunk is cut
\* from a position at or before the one the chunk before it was cut from.
C26_StartIncreases ==
    [][(overlap < chunk_size /\ pc = "body") => (start' >= 0 /\ start' > start)]_vars

\* C27: a build whose add_documents step raises ends with that exception
\* and leaves the collection with the entries it held when the build was
\* called, also when it was called with clear_existing.
C27_BuildAtomic ==
    ret.op = "build_error" => collection = ret.prior


\* C28: after any sequence of uploads, builds and clearings of the uploads,
\* the documents tracked are never more than MAX_DOCUMENTS.
C28_TrackedAtMost == Len(uploaded_documents) <= MAX_DOCUMENTS

\* C29: /upload_docs answering 400, for too many files or for a filename of
\* a type not allowed at any place of the request, leaves the tracked list as
\* it was before the request.
C29_RejectedLeavesList ==
    (ret.op = "upload_docs" /\ ret.status = 400) => uploaded_documents = ret.before

\* C30: the list of files a build is called with holds no path twice,
\* processed_files holds no name twice, and no chunk (its text, source, type
\* and place in its document) is in the batch twice.
C30_IngestedOnce ==
    ret.op = "build" =>
        /\ \A i, j \in 1..Len(ret.call.file_paths) :
              ret.call.file_paths[i] = ret.call.file_paths[j] => i = j
        /\ \A i, j \in 1..Len(ret.processed_files) :
              ret.processed_files[i] = ret.processed_files[j] => i = j
        /\ \A i, j \in 1..Len(ret.batch) :
              ret.batch[i] = ret.batch[j] => i = j

====
